---------------------------- MODULE Spec2Model ----------------------------
(***************************************************************************)
(* A model of openapi_explorer: the OpenAPI document model and reference   *)
(* resolver (src/src/parser.rs), the cross-reference indexer               *)
(* (src/src/indexer.rs), the application state with its filter/navigation  *)
(* engine and reload (src/src/app.rs) and the main loop with its key       *)
(* handler (src/src/ui/mod.rs).                                            *)
(*                                                                         *)
(* Encoding of Rust values:                                                *)
(*   String            a sequence of one-character strings                 *)
(*   Option<T>         None == <<>>, Some(x) == <<x>>                      *)
(*   HashMap<K, V>     a function with domain the key set; where the code  *)
(*                     iterates a map into a Vec, the keys are taken in    *)
(*                     ascending byte order, except where the iteration    *)
(*                     order decides more than the order of a Vec: there   *)
(*                     the order is an explicit parameter.                 *)
(*   Vec<T>            a sequence                                          *)
(***************************************************************************)
EXTENDS Integers, Sequences, FiniteSets, TLC

None == <<>>
Some(x) == <<x>>

(***************************************************************************)
(* Characters.  Ascii lists, in byte order, the characters the model's     *)
(* strings are made of; Code gives a character's position in it.           *)
(***************************************************************************)
Ascii ==
    << " ", "#", "/",
       "0", "1", "2", "3", "4", "5", "6", "7", "8", "9",
       "A", "B", "C", "D", "E", "F", "G", "H", "I", "J", "K", "L", "M",
       "N", "O", "P", "Q", "R", "S", "T", "U", "V", "W", "X", "Y", "Z",
       "a", "b", "c", "d", "e", "f", "g", "h", "i", "j", "k", "l", "m",
       "n", "o", "p", "q", "r", "s", "t", "u", "v", "w", "x", "y", "z" >>

CodeTable == [c \in {Ascii[i] : i \in 1..Len(Ascii)} |->
                 CHOOSE i \in 1..Len(Ascii) : Ascii[i] = c]

Code(c) == CodeTable[c]

IsUpper(c) == Code(c) >= Code("A") /\ Code(c) < Code("a")
IsLower(c) == Code(c) >= Code("a")

to_uppercase_char(c) ==
    IF IsLower(c) THEN Ascii[Code(c) - Code("a") + Code("A")] ELSE c

to_lowercase_char(c) ==
    IF IsUpper(c) THEN Ascii[Code(c) - Code("A") + Code("a")] ELSE c

to_uppercase(s) == [i \in 1..Len(s) |-> to_uppercase_char(s[i])]
to_lowercase(s) == [i \in 1..Len(s) |-> to_lowercase_char(s[i])]

\* str::starts_with
starts_with(s, prefix) ==
    Len(s) >= Len(prefix) /\ SubSeq(s, 1, Len(prefix)) = prefix

\* str::contains: pat occurs in s as a contiguous substring
contains(s, pat) ==
    \E i \in 0..(Len(s) - Len(pat)) : SubSeq(s, i + 1, i + Len(pat)) = pat

\* Ord for String: byte-wise lexicographic order
StrLess(a, b) ==
    \E i \in 1..(Len(a) + 1) :
        /\ i <= Len(b)
        /\ \A j \in 1..(i - 1) : a[j] = b[j]
        /\ (i = Len(a) + 1 \/ Code(a[i]) < Code(b[i]))

\* The elements of a finite set of strings as a sequence in ascending order
\* (what collect() followed by sort_unstable() yields on distinct keys).
RECURSIVE SortedSeq(_)
SortedSeq(S) ==
    IF S = {} THEN <<>>
    ELSE LET m == CHOOSE x \in S : \A y \in S \ {x} : StrLess(x, y)
         IN <<m>> \o SortedSeq(S \ {m})

\* The concatenation of the sequences f[ks[1]], f[ks[2]], ...
RECURSIVE FlatMap(_, _)
FlatMap(ks, f) ==
    IF ks = <<>> THEN <<>> ELSE f[Head(ks)] \o FlatMap(Tail(ks), f)

SeqRange(s) == {s[i] : i \in 1..Len(s)}

Perms(S) ==
    {p \in [1..Cardinality(S) -> S] : \A i, j \in DOMAIN p : p[i] = p[j] => i = j}

(***************************************************************************)
(* parser.rs: the schema model                                             *)
(***************************************************************************)

\* Schema::default()
DefaultSchema ==
    [ schema_type |-> None, description |-> None, properties |-> None,
      items |-> None, required |-> None, all_of |-> None, one_of |-> None,
      any_of |-> None, not |-> None, additional_properties |-> None,
      reference |-> None ]

\* The literal "#/components/schemas/"
RefPrefix ==
    << "#", "/", "c", "o", "m", "p", "o", "n", "e", "n", "t", "s", "/",
       "s", "c", "h", "e", "m", "a", "s", "/" >>

RefPrefixLen == 21

extract_schema_name_from_ref(ref_path) ==
    IF starts_with(ref_path, RefPrefix)
    THEN Some(SubSeq(ref_path, RefPrefixLen + 1, Len(ref_path)))
    ELSE None


(***************************************************************************)
(* parser.rs: reference resolution.  The recursion of the Rust code is on  *)
(* the call stack; a call chain deeper than StackDepth frames exhausts it  *)
(* and aborts the process.  Each resolver returns                          *)
(* [overflow |-> BOOLEAN, value |-> the rewritten tree].                   *)
(***************************************************************************)
StackDepth == 6

StackOverflow == [overflow |-> TRUE, value |-> DefaultSchema]
Done(v) == [overflow |-> FALSE, value |-> v]

\* Option<Vec<Schema>> as the Vec, empty when None
VecOf(opt) == IF opt = None THEN <<>> ELSE opt[1]

\* Faulty variant of resolve_own_reference: the required list of a node
\* without a reference is lost
resolve_own_reference_dropping_required(schema, all_schemas) ==
    IF schema.reference # None
    THEN [schema EXCEPT !.reference = None]
    ELSE [schema EXCEPT !.required = None]

\* Faulty variant of resolve_own_reference: the type of the target replaces
\* the type the node set itself
resolve_own_reference_target_type_wins(schema, all_schemas) ==
    IF schema.reference # None
    THEN LET target_name == extract_schema_name_from_ref(schema.reference[1])
             found == /\ target_name # None
                      /\ target_name[1] \in DOMAIN all_schemas
             target_schema == all_schemas[target_name[1]]
             copied ==
                 [schema EXCEPT
                    !.properties  = IF @ = None THEN target_schema.properties ELSE @,
                    !.schema_type = target_schema.schema_type,
                    !.description = IF @ = None THEN target_schema.description ELSE @,
                    !.required    = IF @ = None THEN target_schema.required ELSE @]
         IN [(IF found THEN copied ELSE schema) EXCEPT !.reference = None]
    ELSE schema

\* parser.rs 170-189: the node's own reference
resolve_own_reference(schema, all_schemas) ==
    IF schema.reference # None
    THEN LET target_name == extract_schema_name_from_ref(schema.reference[1])
             found == /\ target_name # None
                      /\ target_name[1] \in DOMAIN all_schemas
             target_schema == all_schemas[target_name[1]]
             copied ==
                 [schema EXCEPT
                    !.properties  = IF @ = None THEN target_schema.properties ELSE @,
                    !.schema_type = IF @ = None THEN target_schema.schema_type ELSE @,
                    !.description = IF @ = None THEN target_schema.description ELSE @,
                    !.required    = IF @ = None THEN target_schema.required ELSE @]
         IN [(IF found THEN copied ELSE schema) EXCEPT !.reference = None]
    ELSE schema

\* Results of the calls made for the elements of a map or a Vec
Overflows(rs) == \E k \in DOMAIN rs : rs[k].overflow
Values(rs) == [k \in DOMAIN rs |-> rs[k].value]

\* parser.rs 192-220: the node with its sub-schemas as the recursive calls left them
with_children(s, props, items, all_of, one_of, any_of) ==
    IF \/ Overflows(props) \/ Overflows(items) \/ Overflows(all_of)
       \/ Overflows(one_of) \/ Overflows(any_of)
    THEN StackOverflow
    ELSE Done([s EXCEPT
             !.properties = IF @ = None THEN None ELSE Some(Values(props)),
             !.items  = IF @ = None THEN None ELSE Some(items[1].value),
             !.all_of = IF @ = None THEN None ELSE Some(Values(all_of)),
             !.one_of = IF @ = None THEN None ELSE Some(Values(one_of)),
             !.any_of = IF @ = None THEN None ELSE Some(Values(any_of))])

RECURSIVE resolve_schema_refs_recursive(_, _, _)
RECURSIVE resolve_sub_schemas(_, _, _)
resolve_schema_refs_recursive(schema, all_schemas, depth) ==
    IF depth = 0 THEN StackOverflow
    ELSE resolve_sub_schemas(resolve_own_reference(schema, all_schemas), all_schemas, depth)

\* parser.rs 192-220: properties, items, allOf, oneOf, anyOf
resolve_sub_schemas(s, all_schemas, depth) ==
    with_children(s,
        IF s.properties = None THEN <<>>
        ELSE [k \in DOMAIN s.properties[1] |->
                resolve_schema_refs_recursive(s.properties[1][k], all_schemas, depth - 1)],
        IF s.items = None THEN <<>>
        ELSE <<resolve_schema_refs_recursive(s.items[1], all_schemas, depth - 1)>>,
        [i \in 1..Len(VecOf(s.all_of)) |->
            resolve_schema_refs_recursive(s.all_of[1][i], all_schemas, depth - 1)],
        [i \in 1..Len(VecOf(s.one_of)) |->
            resolve_schema_refs_recursive(s.one_of[1][i], all_schemas, depth - 1)],
        [i \in 1..Len(VecOf(s.any_of)) |->
            resolve_schema_refs_recursive(s.any_of[1][i], all_schemas, depth - 1)])

\* parser.rs 157-161: one iteration of the loop over schemas.keys()
RECURSIVE resolve_schema_references(_, _, _)
RECURSIVE store_resolved(_, _, _, _)
store_resolved(schemas, schema_names, r, depth) ==
    IF r.overflow THEN StackOverflow
    ELSE resolve_schema_references(
             [schemas EXCEPT ![Head(schema_names)] = r.value], Tail(schema_names), depth)

\* schema_names is the order in which schemas.keys() yields the names; every
\* schema is resolved against a clone of the map as rewritten so far.
resolve_schema_references(schemas, schema_names, depth) ==
    IF schema_names = <<>> THEN Done(schemas)
    ELSE store_resolved(schemas, schema_names,
             resolve_schema_refs_recursive(schemas[Head(schema_names)], schemas, depth),
             depth)

\* The named schemas of a document, the empty map when there are none
NamedSchemas(spec) ==
    IF spec.components # None /\ spec.components[1].schemas # None
    THEN spec.components[1].schemas[1]
    ELSE <<>>

\* parser.rs 257-266: the node replaced by a clone of the schema it names,
\* when the document has that schema
replace_by_target(schema, spec) ==
    IF /\ schema.reference # None
       /\ extract_schema_name_from_ref(schema.reference[1]) # None
       /\ extract_schema_name_from_ref(schema.reference[1])[1] \in DOMAIN NamedSchemas(spec)
    THEN [NamedSchemas(spec)[extract_schema_name_from_ref(schema.reference[1])[1]]
            EXCEPT !.reference = None]
    ELSE schema

\* parser.rs 268-283: the node with its properties and items as the calls left them
with_properties_and_items(s, props, items) ==
    IF Overflows(props) \/ Overflows(items) THEN StackOverflow
    ELSE Done([s EXCEPT
             !.properties = IF @ = None THEN None ELSE Some(Values(props)),
             !.items  = IF @ = None THEN None ELSE Some(items[1].value)])

RECURSIVE resolve_parameter_schema_refs(_, _, _)
RECURSIVE resolve_properties_and_items(_, _, _)
resolve_parameter_schema_refs(schema, spec, depth) ==
    IF depth = 0 THEN StackOverflow
    ELSE resolve_properties_and_items(replace_by_target(schema, spec), spec, depth)

resolve_properties_and_items(s, spec, depth) ==
    with_properties_and_items(s,
        IF s.properties = None THEN <<>>
        ELSE [k \in DOMAIN s.properties[1] |->
                resolve_parameter_schema_refs(s.properties[1][k], spec, depth - 1)],
        IF s.items = None THEN <<>>
        ELSE <<resolve_parameter_schema_refs(s.items[1], spec, depth - 1)>>)

with_schema(holder, r) ==
    IF r.overflow THEN StackOverflow
    ELSE Done([holder EXCEPT !.schema = Some(r.value)])

\* MediaType { schema: Option<Schema> } and Parameter { schema: Option<Schema> }
resolve_holder(holder, spec, depth) ==
    IF holder.schema = None THEN Done(holder)
    ELSE with_schema(holder, resolve_parameter_schema_refs(holder.schema[1], spec, depth))

with_media(rs) ==
    IF Overflows(rs) THEN StackOverflow ELSE Done(Values(rs))

resolve_content(content, spec, depth) ==
    with_media([ct \in DOMAIN content |-> resolve_holder(content[ct], spec, depth)])

with_operation_parts(operation, params, body, resps) ==
    IF Overflows(params) \/ Overflows(body) \/ Overflows(resps) THEN StackOverflow
    ELSE Done([operation EXCEPT
             !.parameters = IF @ = None THEN None ELSE Some(Values(params)),
             !.request_body = IF @ = None THEN None
                              ELSE Some([@[1] EXCEPT !.content = body[1].value]),
             !.responses = [sc \in DOMAIN @ |->
                              IF @[sc].content = None THEN @[sc]
                              ELSE [@[sc] EXCEPT !.content = Some(resps[sc].value)]]])

resolve_operation_references(operation, spec, depth) ==
    with_operation_parts(operation,
        [i \in 1..Len(VecOf(operation.parameters)) |->
            resolve_holder(operation.parameters[1][i], spec, depth)],
        IF operation.request_body = None THEN <<>>
        ELSE <<resolve_content(operation.request_body[1].content, spec, depth)>>,
        [sc \in DOMAIN operation.responses |->
            IF operation.responses[sc].content = None
            THEN Done(None)
            ELSE resolve_content(operation.responses[sc].content[1], spec, depth)])

with_operations(spec, ops) ==
    IF \E p \in DOMAIN ops : Overflows(ops[p]) THEN StackOverflow
    ELSE Done([spec EXCEPT
             !.paths = [p \in DOMAIN ops |-> [operations |-> Values(ops[p])]]])

\* parser.rs 139-147: each operation resolved against a clone of the document
\* taken after the named schemas were resolved
resolve_operations(spec, depth) ==
    with_operations(spec,
        [p \in DOMAIN spec.paths |->
           [m \in DOMAIN spec.paths[p].operations |->
              resolve_operation_references(spec.paths[p].operations[m], spec, depth)]])

with_named_schemas(spec, named, depth) ==
    IF named.overflow THEN StackOverflow
    ELSE resolve_operations(
             IF spec.components # None /\ spec.components[1].schemas # None
             THEN [spec EXCEPT !.components = Some([schemas |-> Some(named.value)])]
             ELSE spec,
             depth)

\* schema_names: the iteration order of the component schemas
resolve_references(spec, schema_names, depth) ==
    with_named_schemas(spec,
        resolve_schema_references(NamedSchemas(spec), schema_names, depth), depth)

(***************************************************************************)
(* parser.rs: Schema accessors                                             *)
(***************************************************************************)
\* HashMap::keys() of an Option<HashMap>, collected
KeysOf(opt_map) == IF opt_map = None THEN <<>> ELSE SortedSeq(DOMAIN opt_map[1])

RECURSIVE get_field_names(_)
get_field_names(self) ==
    KeysOf(self.properties)
    \o (IF self.items = None THEN <<>> ELSE get_field_names(self.items[1]))
    \o FlatMap([i \in 1..Len(VecOf(self.all_of)) |-> i],
               [i \in 1..Len(VecOf(self.all_of)) |-> get_field_names(self.all_of[1][i])])
    \o FlatMap([i \in 1..Len(VecOf(self.one_of)) |-> i],
               [i \in 1..Len(VecOf(self.one_of)) |-> get_field_names(self.one_of[1][i])])
    \o FlatMap([i \in 1..Len(VecOf(self.any_of)) |-> i],
               [i \in 1..Len(VecOf(self.any_of)) |-> get_field_names(self.any_of[1][i])])

get_field_type(self, field_name) ==
    IF self.properties # None /\ field_name \in DOMAIN self.properties[1]
    THEN self.properties[1][field_name].schema_type
    ELSE None

get_field_description(self, field_name) ==
    IF self.properties # None /\ field_name \in DOMAIN self.properties[1]
    THEN self.properties[1][field_name].description
    ELSE None

(***************************************************************************)
(* indexer.rs                                                              *)
(***************************************************************************)
\* HashMap::insert
Put(m, k, v) == [x \in DOMAIN m \cup {k} |-> IF x = k THEN v ELSE m[x]]

\* FieldIndex::new()
NewFieldIndex == [fields |-> <<>>, schemas |-> <<>>, endpoint_fields |-> <<>>]

RECURSIVE extract_fields_from_schema(_)
extract_fields_from_schema(schema) ==
    KeysOf(schema.properties)
    \o (IF schema.items = None THEN <<>> ELSE extract_fields_from_schema(schema.items[1]))
    \o FlatMap([i \in 1..Len(VecOf(schema.all_of)) |-> i],
               [i \in 1..Len(VecOf(schema.all_of)) |-> extract_fields_from_schema(schema.all_of[1][i])])
    \o FlatMap([i \in 1..Len(VecOf(schema.one_of)) |-> i],
               [i \in 1..Len(VecOf(schema.one_of)) |-> extract_fields_from_schema(schema.one_of[1][i])])
    \o FlatMap([i \in 1..Len(VecOf(schema.any_of)) |-> i],
               [i \in 1..Len(VecOf(schema.any_of)) |-> extract_fields_from_schema(schema.any_of[1][i])])

\* The literal "unknown" type of indexer.rs 78; types are opaque to the code
\* and are kept as plain strings.
UnknownType == "unknown"

\* Faulty variant of index_schema_fields: a later schema overwrites the type
\* and the description of an existing entry
RECURSIVE index_schema_fields_last_write_wins(_, _, _, _)
index_schema_fields_last_write_wins(fields, schema_name, schema, field_names) ==
    IF field_names = <<>> THEN fields
    ELSE LET field_name == Head(field_names)
             entry == [ field_type |->
                          IF get_field_type(schema, field_name) = None
                          THEN UnknownType
                          ELSE get_field_type(schema, field_name)[1],
                        description |-> get_field_description(schema, field_name),
                        schemas |-> IF field_name \in DOMAIN fields
                                    THEN fields[field_name].schemas ELSE <<>>,
                        endpoints |-> {} ]
             field_data == IF schema_name \in SeqRange(entry.schemas) THEN entry
                           ELSE [entry EXCEPT !.schemas = Append(@, schema_name)]
         IN index_schema_fields_last_write_wins(Put(fields, field_name, field_data),
                                                schema_name, schema, Tail(field_names))

\* indexer.rs 70-87: the fields of one named schema
RECURSIVE index_schema_fields(_, _, _, _)
index_schema_fields(fields, schema_name, schema, field_names) ==
    IF field_names = <<>> THEN fields
    ELSE LET field_name == Head(field_names)
             entry == IF field_name \in DOMAIN fields THEN fields[field_name]
                      ELSE [ field_type |->
                               IF get_field_type(schema, field_name) = None
                               THEN UnknownType
                               ELSE get_field_type(schema, field_name)[1],
                             description |-> get_field_description(schema, field_name),
                             schemas |-> <<>>,
                             endpoints |-> {} ]
             field_data == IF schema_name \in SeqRange(entry.schemas) THEN entry
                           ELSE [entry EXCEPT !.schemas = Append(@, schema_name)]
         IN index_schema_fields(Put(fields, field_name, field_data),
                                schema_name, schema, Tail(field_names))

\* indexer.rs 60-89: schema_names is the order in which the component map
\* yields its schemas
RECURSIVE index_schemas(_, _, _)
index_schemas(index, schemas, schema_names) ==
    IF schema_names = <<>> THEN index
    ELSE LET schema_name == Head(schema_names)
             schema == schemas[schema_name]
         IN index_schemas(
                [index EXCEPT
                   !.schemas = Put(@, schema_name, schema),
                   !.fields = index_schema_fields(@, schema_name, schema,
                                                  get_field_names(schema))],
                schemas, Tail(schema_names))

\* format!("{} {}", method.to_uppercase(), path)
EndpointKey(method, path) == to_uppercase(method) \o <<" ">> \o path

\* The schemas an operation carries, in the order of indexer.rs 102-147:
\* parameters, request-body media types, response media types.
HolderSchema(holder) == IF holder.schema = None THEN <<>> ELSE <<holder.schema[1]>>

ContentSchemas(content) ==
    FlatMap(SortedSeq(DOMAIN content), [ct \in DOMAIN content |-> HolderSchema(content[ct])])

OperationSchemas(operation) ==
    FlatMap([i \in 1..Len(VecOf(operation.parameters)) |-> i],
            [i \in 1..Len(VecOf(operation.parameters)) |->
               HolderSchema(operation.parameters[1][i])])
    \o (IF operation.request_body = None THEN <<>>
        ELSE ContentSchemas(operation.request_body[1].content))
    \o FlatMap(SortedSeq(DOMAIN operation.responses),
               [sc \in DOMAIN operation.responses |->
                  IF operation.responses[sc].content = None THEN <<>>
                  ELSE ContentSchemas(operation.responses[sc].content[1])])

\* indexer.rs 107-112, 122-127, 138-143: link the endpoint to the fields
\* that already have an entry
RECURSIVE link_endpoint(_, _, _)
link_endpoint(fields, endpoint_key, endpoint_fields) ==
    IF endpoint_fields = <<>> THEN fields
    ELSE LET field == Head(endpoint_fields)
         IN link_endpoint(
                IF field \in DOMAIN fields
                THEN [fields EXCEPT ![field].endpoints = @ \cup {endpoint_key}]
                ELSE fields,
                endpoint_key, Tail(endpoint_fields))

\* indexer.rs 96-151: operations is the order in which the nested loops over
\* paths and methods visit the operations, as <<path, method>> pairs
RECURSIVE index_endpoints(_, _, _)
index_endpoints(index, openapi_spec, operations) ==
    IF operations = <<>> THEN index
    ELSE LET path == Head(operations)[1]
             method == Head(operations)[2]
             operation == openapi_spec.paths[path].operations[method]
             endpoint_key == EndpointKey(method, path)
             schemas == OperationSchemas(operation)
             endpoint_fields ==
                 FlatMap([i \in 1..Len(schemas) |-> i],
                         [i \in 1..Len(schemas) |-> extract_fields_from_schema(schemas[i])])
         IN index_endpoints(
                [index EXCEPT
                   !.fields = link_endpoint(@, endpoint_key, endpoint_fields),
                   !.endpoint_fields = Put(@, endpoint_key, endpoint_fields)],
                openapi_spec, Tail(operations))

build_field_index(openapi_spec, schema_names, operations) ==
    index_endpoints(
        index_schemas(NewFieldIndex, NamedSchemas(openapi_spec), schema_names),
        openapi_spec, operations)

\* The orders in which a HashMap of the document may be iterated
SchemaOrders(openapi_spec) == Perms(DOMAIN NamedSchemas(openapi_spec))

AllOperations(openapi_spec) ==
    UNION {{<<p, m>> : m \in DOMAIN openapi_spec.paths[p].operations} :
           p \in DOMAIN openapi_spec.paths}

\* path-major: the operations of one path are visited one after another
OperationOrders(openapi_spec) ==
    {o \in Perms(AllOperations(openapi_spec)) :
        \A i, j, k \in DOMAIN o :
            (i < j /\ j < k /\ o[i][1] = o[k][1]) => o[j][1] = o[i][1]}

\* FieldIndex::get_endpoints_for_field: the set collected into a Vec
get_endpoints_for_field(index, field_name) ==
    IF field_name \in DOMAIN index.fields
    THEN SortedSeq(index.fields[field_name].endpoints)
    ELSE <<>>


\* Faulty variant of is_critical_field: the endpoint keys are compared as
\* they are, without to_lowercase
is_critical_field_case_sensitive(index, field_name) ==
    IF field_name \in DOMAIN index.fields
    THEN \E endpoint \in index.fields[field_name].endpoints :
            \/ contains(endpoint, <<"p", "o", "s", "t">>)
            \/ contains(endpoint, <<"p", "u", "t">>)
    ELSE FALSE

is_critical_field(index, field_name) ==
    IF field_name \in DOMAIN index.fields
    THEN \E endpoint \in index.fields[field_name].endpoints :
            \/ contains(to_lowercase(endpoint), <<"p", "o", "s", "t">>)
            \/ contains(to_lowercase(endpoint), <<"p", "u", "t">>)
    ELSE FALSE

\* ui/mod.rs 358-371 (and ui/endpoints.rs 37-44): the operation the details
\* of an endpoint string are rendered from, as its <<path, method>>, if any.
\* splitn(2, ' ') cuts at the first space; the method is looked up in lower
\* case.
render_endpoint_details_popup(openapi_spec, endpoint_str) ==
    LET spaces == {i \in DOMAIN endpoint_str : endpoint_str[i] = " "}
        first == CHOOSE i \in spaces : \A j \in spaces : i <= j
        method == SubSeq(endpoint_str, 1, first - 1)
        path == SubSeq(endpoint_str, first + 1, Len(endpoint_str))
    IN IF spaces = {} THEN None
       ELSE IF path \notin DOMAIN openapi_spec.paths THEN None
       ELSE IF to_lowercase(method) \notin DOMAIN openapi_spec.paths[path].operations THEN None
       ELSE Some(<<path, to_lowercase(method)>>)

get_schema_fields(index, schema_name) ==
    IF schema_name \in DOMAIN index.schemas
    THEN get_field_names(index.schemas[schema_name])
    ELSE <<>>

(***************************************************************************)
(* fuzzy_matcher (external crate): SkimMatcherV2::default().fuzzy_match    *)
(* yields a score iff the pattern's characters occur in the candidate in   *)
(* order; the comparison ignores case unless the pattern has an upper-case *)
(* character (smart case).  The score itself is not modelled: a ranked     *)
(* list is any arrangement of the matching names.                          *)
(***************************************************************************)
RECURSIVE IsSubsequence(_, _)
IsSubsequence(pat, s) ==
    IF pat = <<>> THEN TRUE
    ELSE IF s = <<>> THEN FALSE
    ELSE IF Head(pat) = Head(s) THEN IsSubsequence(Tail(pat), Tail(s))
    ELSE IsSubsequence(pat, Tail(s))

fuzzy_match(choice, pattern) ==
    IF \E i \in DOMAIN pattern : IsUpper(pattern[i])
    THEN IsSubsequence(pattern, choice)
    ELSE IsSubsequence(pattern, to_lowercase(choice))

\* app.rs 128-138: the names matching the query, sorted by score descending
Ranked(names, query) == Perms({n \in names : fuzzy_match(n, query)})

(***************************************************************************)
(* app.rs: App.  An App value is a record with the fields of the struct;   *)
(* a method is an operator from the App before the call to the App after   *)
(* it, or to the set of Apps the call may produce.                         *)
(***************************************************************************)
Min(a, b) == IF a < b THEN a ELSE b

\* Faulty variant of clamp_selection: the cursor is kept as it was
clamp_selection_kept(state, list) == state

\* app.rs 167-185
clamp_selection(state, list) ==
    IF list # <<>> THEN Min(state, Len(list) - 1) ELSE 0

update_filters(self) ==
    LET fields == IF self.search_query = <<>>
                  THEN {SortedSeq(DOMAIN self.field_index.fields)}
                  ELSE Ranked(DOMAIN self.field_index.fields, self.search_query)
        schemas == IF self.search_query = <<>>
                   THEN {SortedSeq(DOMAIN self.field_index.schemas)}
                   ELSE Ranked(DOMAIN self.field_index.schemas, self.search_query)
        endpoints == IF self.search_query = <<>>
                     THEN {SortedSeq(DOMAIN self.openapi_spec.paths)}
                     ELSE Ranked(DOMAIN self.openapi_spec.paths, self.search_query)
    IN { [self EXCEPT
            !.filtered_fields = f,
            !.filtered_schemas = s,
            !.filtered_endpoints = e,
            !.field_list_state = clamp_selection(@, f),
            !.schema_list_state = clamp_selection(@, s),
            !.endpoint_list_state = clamp_selection(@, e)] :
         f \in fields, s \in schemas, e \in endpoints }

Warning(kind, name, count) == [kind |-> kind, name |-> name, count |-> count]

validate_spec(self) ==
    LET spec == self.openapi_spec
        index == self.field_index
        components ==
            IF spec.components = None
            THEN <<Warning("No components section found in OpenAPI spec", <<>>, 0)>>
            ELSE IF spec.components[1].schemas = None
                    \/ DOMAIN spec.components[1].schemas[1] = {}
            THEN <<Warning("No schemas defined in components", <<>>, 0)>>
            ELSE <<>>
        paths == IF DOMAIN spec.paths = {}
                 THEN <<Warning("No paths/endpoints defined in spec", <<>>, 0)>>
                 ELSE <<>>
        untyped == FlatMap(SortedSeq(DOMAIN index.fields),
                       [f \in DOMAIN index.fields |->
                          IF index.fields[f].field_type = UnknownType
                          THEN <<Warning("Field has unknown type", f, 0)>>
                          ELSE <<>>])
        no_ops == FlatMap(SortedSeq(DOMAIN spec.paths),
                      [p \in DOMAIN spec.paths |->
                         IF DOMAIN spec.paths[p].operations = {}
                         THEN <<Warning("Path has no operations defined", p, 0)>>
                         ELSE <<>>])
        missing_descriptions ==
            Cardinality({pm \in AllOperations(spec) :
                LET operation == spec.paths[pm[1]].operations[pm[2]]
                IN operation.description = None /\ operation.summary = None})
        unused_schemas ==
            Cardinality({schema_name \in DOMAIN index.schemas :
                ~ \E f \in DOMAIN index.fields :
                    /\ schema_name \in SeqRange(index.fields[f].schemas)
                    /\ index.fields[f].endpoints # {}})
    IN [self EXCEPT !.validation_warnings =
            components \o paths \o untyped \o no_ops
            \o (IF missing_descriptions > 0
                THEN <<Warning("endpoint(s) missing description/summary", <<>>,
                               missing_descriptions)>>
                ELSE <<>>)
            \o (IF unused_schemas > 0
                THEN <<Warning("schema(s) not used in any endpoint", <<>>, unused_schemas)>>
                ELSE <<>>)]

\* App::new
new(openapi_spec, field_index, file_path) ==
    LET app == [ openapi_spec |-> openapi_spec,
                 field_index |-> field_index,
                 current_view |-> "Fields",
                 current_panel |-> "Left",
                 selected_field |-> None,
                 selected_schema |-> None,
                 selected_endpoint |-> None,
                 search_query |-> <<>>,
                 filtered_fields |-> <<>>,
                 filtered_schemas |-> <<>>,
                 filtered_endpoints |-> <<>>,
                 should_quit |-> FALSE,
                 show_help |-> FALSE,
                 show_endpoint_details |-> FALSE,
                 selected_endpoint_for_details |-> None,
                 field_list_state |-> 0,
                 schema_list_state |-> 0,
                 endpoint_list_state |-> 0,
                 file_path |-> file_path,
                 should_reload |-> FALSE,
                 reload_error |-> None,
                 is_loading |-> FALSE,
                 loading_message |-> "",
                 validation_warnings |-> <<>> ]
    IN {validate_spec(a) : a \in update_filters(app)}

next_panel(self) ==
    [self EXCEPT !.current_panel =
        CASE @ = "Left" -> "Center"
          [] @ = "Center" -> "Right"
          [] @ = "Right" -> "Left"]

set_view(self, view) ==
    [self EXCEPT !.current_view = view,
                 !.selected_field = None,
                 !.selected_schema = None,
                 !.selected_endpoint = None]

navigate_up(self) ==
    CASE self.current_panel = "Left" /\ self.current_view = "Fields" ->
            IF self.field_list_state > 0
            THEN [self EXCEPT !.field_list_state = @ - 1] ELSE self
      [] self.current_panel = "Left" /\ self.current_view = "Schemas" ->
            IF self.schema_list_state > 0
            THEN [self EXCEPT !.schema_list_state = @ - 1] ELSE self
      [] self.current_panel = "Left" /\ self.current_view = "Endpoints" ->
            IF self.endpoint_list_state > 0
            THEN [self EXCEPT !.endpoint_list_state = @ - 1] ELSE self
      [] self.current_panel = "Right" /\ self.selected_field # None ->
            LET endpoints == get_endpoints_for_field(self.field_index, self.selected_field[1])
            IN IF self.endpoint_list_state > 0 /\ endpoints # <<>>
               THEN [self EXCEPT !.endpoint_list_state = @ - 1] ELSE self
      [] OTHER -> self

\* Faulty variant of saturating_sub_1: nothing is subtracted
saturating_sub_none(n) == n

\* usize::saturating_sub(1)
saturating_sub_1(n) == IF n = 0 THEN 0 ELSE n - 1

navigate_down(self) ==
    CASE self.current_panel = "Left" /\ self.current_view = "Fields" ->
            IF self.field_list_state < saturating_sub_1(Len(self.filtered_fields))
            THEN [self EXCEPT !.field_list_state = @ + 1] ELSE self
      [] self.current_panel = "Left" /\ self.current_view = "Schemas" ->
            IF self.schema_list_state < saturating_sub_1(Len(self.filtered_schemas))
            THEN [self EXCEPT !.schema_list_state = @ + 1] ELSE self
      [] self.current_panel = "Left" /\ self.current_view = "Endpoints" ->
            IF self.endpoint_list_state < saturating_sub_1(Len(self.filtered_endpoints))
            THEN [self EXCEPT !.endpoint_list_state = @ + 1] ELSE self
      [] self.current_panel = "Right" /\ self.selected_field # None ->
            LET endpoints == get_endpoints_for_field(self.field_index, self.selected_field[1])
            IN IF endpoints # <<>> /\ self.endpoint_list_state < Len(endpoints) - 1
               THEN [self EXCEPT !.endpoint_list_state = @ + 1] ELSE self
      [] OTHER -> self

\* slice::get(index): the element at a 0-based index, if any
Get(list, index) == IF index < Len(list) THEN Some(list[index + 1]) ELSE None

\* Faulty variant of select_current_item: selecting a field keeps the
\* endpoint cursor
select_current_item_keeping_cursor(self) ==
    CASE self.current_panel = "Left" /\ self.current_view = "Fields" ->
            IF Get(self.filtered_fields, self.field_list_state) # None
            THEN [self EXCEPT
                    !.selected_field = Get(self.filtered_fields, self.field_list_state)]
            ELSE self
      [] self.current_panel = "Left" /\ self.current_view = "Schemas" ->
            IF Get(self.filtered_schemas, self.schema_list_state) # None
            THEN [self EXCEPT
                    !.selected_schema = Get(self.filtered_schemas, self.schema_list_state)]
            ELSE self
      [] self.current_panel = "Left" /\ self.current_view = "Endpoints" ->
            IF Get(self.filtered_endpoints, self.endpoint_list_state) # None
            THEN [self EXCEPT
                    !.selected_endpoint = Get(self.filtered_endpoints, self.endpoint_list_state)]
            ELSE self
      [] OTHER -> self

select_current_item(self) ==
    CASE self.current_panel = "Left" /\ self.current_view = "Fields" ->
            IF Get(self.filtered_fields, self.field_list_state) # None
            THEN [self EXCEPT
                    !.selected_field = Get(self.filtered_fields, self.field_list_state),
                    !.endpoint_list_state = 0]
            ELSE self
      [] self.current_panel = "Left" /\ self.current_view = "Schemas" ->
            IF Get(self.filtered_schemas, self.schema_list_state) # None
            THEN [self EXCEPT
                    !.selected_schema = Get(self.filtered_schemas, self.schema_list_state)]
            ELSE self
      [] self.current_panel = "Left" /\ self.current_view = "Endpoints" ->
            IF Get(self.filtered_endpoints, self.endpoint_list_state) # None
            THEN [self EXCEPT
                    !.selected_endpoint = Get(self.filtered_endpoints, self.endpoint_list_state)]
            ELSE self
      [] self.current_panel = "Right" /\ self.selected_field # None ->
            LET endpoints == get_endpoints_for_field(self.field_index, self.selected_field[1])
            IN IF Get(endpoints, self.endpoint_list_state) # None
               THEN [self EXCEPT
                       !.selected_endpoint_for_details = Get(endpoints, self.endpoint_list_state),
                       !.show_endpoint_details = TRUE]
               ELSE self
      [] OTHER -> self

request_reload(self) ==
    [self EXCEPT !.should_reload = TRUE,
                 !.is_loading = TRUE,
                 !.loading_message = "Reloading OpenAPI specification..."]

(***************************************************************************)
(* Input documents                                                         *)
(***************************************************************************)
Obj(props) == [DefaultSchema EXCEPT !.schema_type = Some("object"), !.properties = Some(props)]
Prim(type) == [DefaultSchema EXCEPT !.schema_type = Some(type)]
Described(schema, text) == [schema EXCEPT !.description = Some(text)]
Ref(ref_path) == [DefaultSchema EXCEPT !.reference = Some(ref_path)]

Operation(summary, parameters, request_body, responses) ==
    [ summary |-> summary, description |-> None, parameters |-> parameters,
      request_body |-> request_body, responses |-> responses ]

Media(schema) == [schema |-> Some(schema)]
Body(content) == Some([content |-> content])
Response(content) == [content |-> content]
Document(paths, components) == [paths |-> paths, components |-> components]
Components(schemas) == Some([schemas |-> Some(schemas)])

Json == <<"j", "s", "o", "n">>
Status200 == <<"2", "0", "0">>
MethodGet == <<"g", "e", "t">>
MethodPost == <<"p", "o", "s", "t">>
Id == <<"i", "d">>
Name == <<"n", "a", "m", "e">>
Tag == <<"t", "a", "g">>
User == <<"U", "s", "e", "r">>
Pet == <<"P", "e", "t">>
Label == <<"L", "a", "b", "e", "l">>
PathU == <<"/", "u">>
PathE == <<"/", "e">>

\* User{id, name}; GET /u answers {id}, POST /u takes {id, name}
DocUsers ==
    Document(
        PathU :> [operations |->
            (MethodGet :> Operation(Some("List users"), None, None,
                       Status200 :> Response(Some(Json :> Media(Obj(Id :> Prim("integer")))))))
            @@ (MethodPost :> Operation(None, None,
                       Body(Json :> Media(Obj((Id :> Prim("integer")) @@ (Name :> Prim("string"))))),
                       <<>>))],
        Components(User :> Obj((Id :> Described(Prim("integer"), "User ID"))
                               @@ (Name :> Prim("string")))))

\* Pet{tag}, Label{id (untyped)}; GET /e carries no schema, POST /e takes
\* {"$ref": "#/components/schemas/Pet"}, /q has no operation
DocPets ==
    Document(
        (PathE :> [operations |->
            (MethodGet :> Operation(None, None, None, <<>>))
            @@ (MethodPost :> Operation(None, None,
                       Body(Json :> Media(Ref(RefPrefix \o Pet))), <<>>))])
        @@ (<<"/", "q">> :> [operations |-> <<>>]),
        Components((Pet :> Obj(Tag :> Prim("string")))
                   @@ (Label :> Obj(Id :> DefaultSchema))))

\* no components section, no paths
DocEmpty == Document(<<>>, None)

Docs == {DocUsers, DocPets, DocEmpty}

\* build_field_index(d) for each input document d: every index the call may
\* return, one per iteration order of the document's maps
Indexes ==
    [d \in Docs |-> { build_field_index(d, sn, ops) :
                      sn \in SchemaOrders(d), ops \in OperationOrders(d) }]

(***************************************************************************)
(* app.rs 332-366: App::reload.  The call suspends once, at the await of   *)
(* parse_openapi; reload_begin is the part before it, reload_ok and        *)
(* reload_err the two arms after it, reload_no_path the else branch.       *)
(***************************************************************************)
ParseOk(spec) == [ok |-> TRUE, spec |-> spec, err |-> ""]
ParseErr(e) == [ok |-> FALSE, spec |-> <<>>, err |-> e]

\* what a read of the source location may yield: a document, or one of the
\* errors of parse_openapi (parser.rs 94-113)
ParseOutcomes ==
    {ParseOk(d) : d \in Docs}
    \cup {ParseErr(e) : e \in {"OpenAPI file not found", "Failed to parse OpenAPI JSON"}}

reload_begin(self) ==
    [self EXCEPT !.is_loading = TRUE, !.loading_message = "Parsing ..."]

\* Faulty variant of reload_ok: the document is replaced, the index is not
reload_ok_keeping_index(self, spec) ==
    { [validate_spec(a) EXCEPT !.reload_error = None,
                               !.is_loading = FALSE,
                               !.loading_message = ""] :
      a \in update_filters([self EXCEPT !.openapi_spec = spec]) }

reload_ok(self, spec) ==
    UNION { { [validate_spec(a) EXCEPT !.reload_error = None,
                                       !.is_loading = FALSE,
                                       !.loading_message = ""] :
              a \in update_filters([self EXCEPT !.openapi_spec = spec,
                                                !.field_index = new_index]) } :
            new_index \in Indexes[spec] }

\* app.rs 352: format!("Failed to reload: {}", e)
FailedToReload(e) == "Failed to reload: " \o e

\* app.rs 360
NoFilePath == "No file path available for reload"

\* Result<(), String>
Ok == [ok |-> TRUE, err |-> ""]
Err(error_msg) == [ok |-> FALSE, err |-> error_msg]

\* Faulty variant of reload_err: the warnings are lost
reload_err_dropping_warnings(self, e) ==
    [self EXCEPT !.reload_error = Some(FailedToReload(e)),
                 !.is_loading = FALSE,
                 !.loading_message = "",
                 !.validation_warnings = <<>>]

\* Faulty variant of reload_err: the loading state is left as it was
reload_err_still_loading(self, e) ==
    [self EXCEPT !.reload_error = Some(FailedToReload(e))]

reload_err(self, e) ==
    [self EXCEPT !.reload_error = Some(FailedToReload(e)),
                 !.is_loading = FALSE,
                 !.loading_message = ""]

\* Faulty variant of reload_no_path: the selection is lost
reload_no_path_deselecting(self) ==
    [self EXCEPT !.reload_error = Some(NoFilePath),
                 !.is_loading = FALSE,
                 !.loading_message = "",
                 !.selected_field = None,
                 !.field_list_state = 0]

reload_no_path(self) ==
    [self EXCEPT !.reload_error = Some(NoFilePath),
                 !.is_loading = FALSE,
                 !.loading_message = ""]

(***************************************************************************)
(* ui/mod.rs 490-563: handle_key_events.  A key is its KeyCode, the        *)
(* character of a KeyCode::Char and whether CONTROL is held.               *)
(***************************************************************************)
Key(code) == [code |-> code, ch |-> "", ctrl |-> FALSE]
Char(ch) == [code |-> "Char", ch |-> ch, ctrl |-> FALSE]
Ctrl(ch) == [code |-> "Char", ch |-> ch, ctrl |-> TRUE]
NoKey == Key("")

IsChar(key, ch) == key.code = "Char" /\ key.ch = ch

\* String::pop
Pop(s) == SubSeq(s, 1, Len(s) - 1)

handle_key_events(key, app) ==
    IF (IsChar(key, "q") \/ IsChar(key, "c")) /\ key.ctrl
    THEN {[app EXCEPT !.should_quit = TRUE]}
    ELSE IF IsChar(key, "q") THEN {[app EXCEPT !.should_quit = TRUE]}
    ELSE IF key.code = "Tab" THEN {next_panel(app)}
    ELSE IF IsChar(key, "/") THEN update_filters([app EXCEPT !.search_query = <<>>])
    ELSE IF IsChar(key, "h") THEN {[app EXCEPT !.show_help = ~@]}
    ELSE IF IsChar(key, "1") THEN {set_view(app, "Fields")}
    ELSE IF IsChar(key, "2") THEN {set_view(app, "Schemas")}
    ELSE IF IsChar(key, "3") THEN {set_view(app, "Endpoints")}
    ELSE IF IsChar(key, "4") THEN {set_view(app, "Graph")}
    ELSE IF IsChar(key, "5") THEN {set_view(app, "Stats")}
    ELSE IF IsChar(key, "r") THEN {request_reload(app)}
    ELSE IF key.code = "Esc"
    THEN {[app EXCEPT !.show_help = FALSE,
                      !.show_endpoint_details = FALSE,
                      !.selected_endpoint_for_details = None,
                      !.reload_error = None]}
    ELSE IF key.code = "Char"
    THEN IF app.search_query # <<>> \/ key.ch = "/"
         THEN IF key.ch # "/"
              THEN update_filters([app EXCEPT !.search_query = Append(@, key.ch)])
              ELSE {app}
         ELSE {app}
    ELSE IF key.code = "Backspace"
    THEN IF app.search_query # <<>>
         THEN update_filters([app EXCEPT !.search_query = Pop(@)])
         ELSE {app}
    ELSE IF key.code = "Up" THEN {IF ~app.show_help THEN navigate_up(app) ELSE app}
    ELSE IF key.code = "Down" THEN {IF ~app.show_help THEN navigate_down(app) ELSE app}
    ELSE IF key.code = "Enter" THEN {IF ~app.show_help THEN select_current_item(app) ELSE app}
    ELSE {app}

\* The inputs of the program: the command line and the keyboard
\* main.rs 17: --file given or not
FilePaths == {None, Some("api.json")}

Keys ==
    { Key("Tab"), Key("Esc"), Key("Backspace"), Key("Up"), Key("Down"), Key("Enter"),
      Key("F1"), Char("/"), Char("h"), Char("r"), Char("q"), Ctrl("c"), Char("a"),
      Char("1"), Char("2"), Char("3"), Char("4"), Char("5") }

(***************************************************************************)
(* State                                                                   *)
(*   app          the App (app.rs 38-67)                                   *)
(*   pc           where run() stands (ui/mod.rs 35-68)                     *)
(*   key          the key event read and not yet handled                   *)
(*   parse_result what the parse_openapi awaited by a reload returns       *)
(*   called       the App method a client of the library called last, and  *)
(*                what it returned                                         *)
(*   document     the document handed to the resolver                      *)
(*   stage        how far the resolver and the indexer got with it         *)
(*   built        the index build_field_index returned for the document,   *)
(*                with the orders in which it iterated the maps            *)
(*   elapsed      last_tick.elapsed() in run(), in units of 25 ms          *)
(* Spec is the program (main and the loop of run); SpecApi is a client of  *)
(* the library calling the public methods of App in any order; SpecDoc is  *)
(* resolve_references and build_field_index applied to a parsed document;  *)
(* SpecTick is the loop of run() with the time its steps take.             *)
(***************************************************************************)
VARIABLES app, pc, key, parse_result, called, document, stage, built, elapsed

vars == <<app, pc, key, parse_result, called, document, stage, built, elapsed>>

\* the variables Spec does not follow: it tells what the loop of run() does
\* to the App, not how long that takes
others == <<called, document, stage, built, elapsed>>

\* no index built yet
NotBuilt == [index |-> NewFieldIndex, schema_names |-> <<>>, operations |-> <<>>]

Called(method, result) == [method |-> method, result |-> result]
NoCall == Called("", Ok)

\* main.rs 45-58: parse, index, App::new
Startup ==
    UNION { UNION { new(d, index, fp) : index \in Indexes[d] } :
            d \in Docs, fp \in FilePaths }

Init ==
    /\ app \in Startup
    /\ pc = "top"
    /\ key = NoKey
    /\ parse_result = None
    /\ called = NoCall
    /\ document = DocEmpty
    /\ stage = ""
    /\ built = NotBuilt
    /\ elapsed = 0

\* ui/mod.rs 37: no reload requested
LoopNoReload ==
    /\ pc = "top"
    /\ ~app.should_reload
    /\ pc' = "poll"
    /\ UNCHANGED <<app, key, parse_result, others>>

\* ui/mod.rs 37-39 with app.rs 359-365
LoopReloadNoPath ==
    /\ pc = "top"
    /\ app.should_reload
    /\ app.file_path = None
    /\ app' = reload_no_path([app EXCEPT !.should_reload = FALSE])
    /\ pc' = "poll"
    /\ UNCHANGED <<key, parse_result, others>>

\* ui/mod.rs 37-39 with app.rs 333-338, up to the await
LoopReloadBegin ==
    /\ pc = "top"
    /\ app.should_reload
    /\ app.file_path # None
    /\ app' = reload_begin([app EXCEPT !.should_reload = FALSE])
    /\ \E r \in ParseOutcomes : parse_result' = Some(r)
    /\ pc' = "await"
    /\ UNCHANGED <<key, others>>

\* app.rs 339-350
LoopReloadOk ==
    /\ pc = "await"
    /\ parse_result[1].ok
    /\ app' \in reload_ok(app, parse_result[1].spec)
    /\ parse_result' = None
    /\ pc' = "poll"
    /\ UNCHANGED <<key, others>>

\* app.rs 351-357
LoopReloadErr ==
    /\ pc = "await"
    /\ ~parse_result[1].ok
    /\ app' = reload_err(app, parse_result[1].err)
    /\ parse_result' = None
    /\ pc' = "poll"
    /\ UNCHANGED <<key, others>>

\* Faulty variant of PollKey: a key is read while the reload is suspended
PollKey_while_loading ==
    /\ pc \in {"poll", "await"}
    /\ \E k \in Keys : key' = k
    /\ pc' = "handle"
    /\ UNCHANGED <<app, parse_result, others>>

\* ui/mod.rs 50-53: an event is ready and is a key press
PollKey ==
    /\ pc = "poll"
    /\ \E k \in Keys : key' = k
    /\ pc' = "handle"
    /\ UNCHANGED <<app, parse_result, others>>

\* ui/mod.rs 50-67: the poll times out (or the event is no key press);
\* tick, render, next iteration
PollTimeout ==
    /\ pc = "poll"
    /\ pc' = "top"
    /\ UNCHANGED <<app, key, parse_result, others>>

\* ui/mod.rs 53-67: handle the key, render, leave the loop on should_quit
HandleKey ==
    /\ pc = "handle"
    /\ app' \in handle_key_events(key, app)
    /\ key' = NoKey
    /\ pc' = IF app'.should_quit THEN "done" ELSE "top"
    /\ UNCHANGED <<parse_result, others>>

Next ==
    \/ LoopNoReload
    \/ LoopReloadNoPath
    \/ LoopReloadBegin
    \/ LoopReloadOk
    \/ LoopReloadErr
    \/ PollKey
    \/ PollTimeout
    \/ HandleKey

Spec == Init /\ [][Next]_vars

\* run() is sequential code in which every step returns (the poll has a
\* timeout, the awaited read of the file completes): the loop keeps going
\* until it is left
FairSpec == Spec /\ WF_vars(Next)

(***************************************************************************)
(* SpecApi: the library used directly.  search_query is a public field; a  *)
(* client edits it and calls update_filters.                               *)
(***************************************************************************)
MaxQueryLen == 1

Queries == UNION {[1..n -> {"e"}] : n \in 0..MaxQueryLen}

Views == {"Fields", "Schemas", "Endpoints", "Graph", "Stats"}

idle == <<pc, key, document, stage, built, elapsed>>

ApiInit ==
    /\ app \in Startup
    /\ pc = "api"
    /\ key = NoKey
    /\ parse_result = None
    /\ called = Called("new", Ok)
    /\ document = DocEmpty
    /\ stage = ""
    /\ built = NotBuilt
    /\ elapsed = 0

CallNavigateUp ==
    /\ app' = navigate_up(app)
    /\ called' = Called("navigate_up", Ok)
    /\ parse_result' = None
    /\ UNCHANGED idle

CallNavigateDown ==
    /\ app' = navigate_down(app)
    /\ called' = Called("navigate_down", Ok)
    /\ parse_result' = None
    /\ UNCHANGED idle

CallSelectCurrentItem ==
    /\ app' = select_current_item(app)
    /\ called' = Called("select_current_item", Ok)
    /\ parse_result' = None
    /\ UNCHANGED idle

CallNextPanel ==
    /\ app' = next_panel(app)
    /\ called' = Called("next_panel", Ok)
    /\ parse_result' = None
    /\ UNCHANGED idle

CallSetView ==
    /\ \E view \in Views : app' = set_view(app, view)
    /\ called' = Called("set_view", Ok)
    /\ parse_result' = None
    /\ UNCHANGED idle

\* app.search_query = q; app.update_filters()
CallUpdateFilters ==
    /\ \E q \in Queries : app' \in update_filters([app EXCEPT !.search_query = q])
    /\ called' = Called("update_filters", Ok)
    /\ parse_result' = None
    /\ UNCHANGED idle

\* app.reload().await, from the call to its return: the App it leaves, the
\* Result it returns and what parse_openapi returned to it, if it was called
reload(self) ==
    IF self.file_path = None
    THEN {[app |-> reload_no_path(self), result |-> Err(NoFilePath), parsed |-> None]}
    ELSE UNION {
            IF r.ok
            THEN {[app |-> a, result |-> Ok, parsed |-> Some(r)] :
                  a \in reload_ok(reload_begin(self), r.spec)}
            ELSE {[app |-> reload_err(reload_begin(self), r.err),
                   result |-> Err(FailedToReload(r.err)),
                   parsed |-> Some(r)]} :
            r \in ParseOutcomes }

CallReload ==
    /\ \E out \in reload(app) :
          /\ app' = out.app
          /\ called' = Called("reload", out.result)
          /\ parse_result' = out.parsed
    /\ UNCHANGED idle

ApiNext ==
    \/ CallNavigateUp
    \/ CallNavigateDown
    \/ CallSelectCurrentItem
    \/ CallNextPanel
    \/ CallSetView
    \/ CallUpdateFilters
    \/ CallReload

SpecApi == ApiInit /\ [][ApiNext]_vars

(***************************************************************************)
(* SpecDoc: resolve_references on a parsed document.  The documents are    *)
(* built around one node carrying a reference, placed at every position of *)
(* a named schema A and of an operation's parameter, request body and      *)
(* response; B is the schema referred to, M names no schema.               *)
(***************************************************************************)
SchemaA == <<"A">>
SchemaB == <<"B">>
Missing == <<"M">>
Child == <<"c">>
Value == <<"v">>

RefPaths ==
    { RefPrefix \o SchemaB,     \* an existing schema
      RefPrefix \o Missing,     \* a dangling reference
      RefPrefix \o SchemaA,     \* the schema itself
      SchemaB }                 \* not of the form #/components/schemas/<Name>

\* a bare reference; one with a type of its own; one to B with a
\* description, properties and a required list of its own
RefNodes ==
    {Ref(r) : r \in RefPaths}
    \cup {[Ref(r) EXCEPT !.schema_type = Some("string")] : r \in RefPaths}
    \cup {[Ref(RefPrefix \o SchemaB) EXCEPT !.description = Some("local"),
                                            !.properties = Some(Id :> Prim("integer")),
                                            !.required = Some(<<Id>>)]}

\* node n as the schema itself and under each kind of sub-schema
Placements(n) ==
    { n,
      Obj(Child :> n),
      [Prim("array") EXCEPT !.items = Some(n)],
      [DefaultSchema EXCEPT !.all_of = Some(<<n>>)],
      [DefaultSchema EXCEPT !.one_of = Some(<<n>>)],
      [DefaultSchema EXCEPT !.any_of = Some(<<Prim("string"), n>>)],
      [DefaultSchema EXCEPT !.not = Some(n)],
      [Prim("object") EXCEPT !.additional_properties = Some(n)] }

TargetB ==
    [Described(Obj(Value :> Prim("string")), "target") EXCEPT !.required = Some(<<Value>>)]

\* what B may be: an object with a property, an array of such objects, a
\* composition with such a member, an object with a property referring to A
Targets ==
    { TargetB,
      [Prim("array") EXCEPT !.items = Some(Obj(Value :> Prim("string")))],
      [DefaultSchema EXCEPT !.all_of = Some(<<Obj(Value :> Prim("string"))>>)],
      Obj(Child :> Ref(RefPrefix \o SchemaA)) }

NamedSchemaDocs ==
    { Document(<<>>, Components((SchemaA :> a) @@ (SchemaB :> b))) :
      a \in UNION {Placements(n) : n \in RefNodes \cup {Prim("string")}},
      b \in Targets }

OperationsWith(schema) ==
    { Operation(None, Some(<<[schema |-> Some(schema)], [schema |-> None]>>), None, <<>>),
      Operation(None, None, Body(Json :> Media(schema)), <<>>),
      Operation(None, None, None,
                (Status200 :> Response(Some(Json :> Media(schema))))
                @@ (<<"4", "0", "4">> :> Response(None))) }

OperationDocs ==
    { Document(PathU :> [operations |-> (MethodPost :> op)],
               Components(SchemaB :> TargetB)) :
      op \in UNION {OperationsWith(schema) :
                    schema \in UNION {Placements(Ref(r)) :
                                      r \in {RefPrefix \o SchemaB, RefPrefix \o Missing}}} }

\* The operations of the documents for the indexer: none of the schemas
\* refers to another; v occurs in no named schema
IndexedOperations ==
    { Operation(None, None, None, <<>>),
      Operation(None, None,
                Body(Json :> Media(Obj((Id :> Prim("integer")) @@ (Name :> Prim("string"))))),
                <<>>),
      Operation(None, Some(<<[schema |-> Some(Obj(Value :> Prim("string")))]>>), None,
                Status200 :> Response(Some(Json :> Media(Obj(Id :> Prim("integer")))))) }

\* one path, whose operations are keyed by the member names of the path
\* object as written ("get" and "GET" are two keys of PathItem.operations);
\* the path is /u, /put or "/a b"; User alone, or User with Pet (whose id is a string)
\* and Label (an array whose items define name)
IndexDocs ==
    { Document(path :> [operations |-> operations], Components(schemas)) :
      path \in {PathU, <<"/", "p", "u", "t">>, <<"/", "a", " ", "b">>},
      operations \in UNION { [methods -> IndexedOperations] :
                 methods \in SUBSET {MethodGet, to_uppercase(MethodGet), MethodPost} },
      schemas \in
        { User :> Obj((Id :> Described(Prim("integer"), "User ID"))
                      @@ (Name :> Prim("string"))),
          (User :> Obj((Id :> Described(Prim("integer"), "User ID"))
                       @@ (Name :> Prim("string"))))
          @@ (Pet :> Obj((Id :> Prim("string")) @@ (Tag :> DefaultSchema)))
          @@ (Label :> [Prim("array") EXCEPT
                          !.items = Some(Obj(Name :> Prim("integer")))]) } }

ParsedDocs == NamedSchemaDocs \cup OperationDocs \cup IndexDocs

DocInit ==
    /\ document \in ParsedDocs
    /\ stage = "parsed"
    /\ app = <<>>
    /\ pc = "doc"
    /\ key = NoKey
    /\ parse_result = None
    /\ called = NoCall
    /\ built = NotBuilt
    /\ elapsed = 0

\* parser.rs 134-150: resolve_references returns
Resolve ==
    /\ stage = "parsed"
    /\ \E schema_names \in SchemaOrders(document) :
          LET r == resolve_references(document, schema_names, StackDepth)
          IN /\ ~r.overflow
             /\ document' = r.value
    /\ stage' = "resolved"
    /\ UNCHANGED <<app, pc, key, parse_result, called, built, elapsed>>

\* parser.rs 165-221: the recursion exhausts the stack and the process aborts
ResolveOverflow ==
    /\ stage = "parsed"
    /\ \E schema_names \in SchemaOrders(document) :
          resolve_references(document, schema_names, StackDepth).overflow
    /\ stage' = "aborted"
    /\ UNCHANGED <<document, app, pc, key, parse_result, called, built, elapsed>>

\* parser.rs 134-150: resolve_references called on its own result
ResolveAgain ==
    /\ stage = "resolved"
    /\ \E schema_names \in SchemaOrders(document) :
          LET r == resolve_references(document, schema_names, StackDepth)
          IN /\ ~r.overflow
             /\ document' = r.value
    /\ stage' = "resolved again"
    /\ UNCHANGED <<app, pc, key, parse_result, called, built, elapsed>>

\* indexer.rs 54-154: build_field_index on the document, resolved or not
BuildIndex ==
    /\ stage \in {"parsed", "resolved"}
    /\ \E schema_names \in SchemaOrders(document), operations \in OperationOrders(document) :
          built' = [index |-> build_field_index(document, schema_names, operations),
                    schema_names |-> schema_names,
                    operations |-> operations]
    /\ stage' = "indexed"
    /\ UNCHANGED <<document, app, pc, key, parse_result, called, elapsed>>

\* indexer.rs 35-44: FieldIndex::is_critical_field asked of the built index,
\* for names inside and outside the field map
IsCriticalField ==
    /\ stage = "indexed"
    /\ \E field_name \in {Id, Name, Tag, Value} :
          called' = Called("is_critical_field",
                           [field_name |-> field_name,
                            critical |-> is_critical_field(built.index, field_name)])
    /\ stage' = "queried"
    /\ UNCHANGED <<document, built, app, pc, key, parse_result, elapsed>>

\* ui/mod.rs 358-371: the details popup is rendered for the endpoint key the
\* index holds for an operation of the document
EndpointDetails ==
    /\ stage = "indexed"
    /\ \E op \in AllOperations(document) :
          called' = Called("render_endpoint_details_popup",
                           [operation |-> op,
                            found |-> render_endpoint_details_popup(
                                          document, EndpointKey(op[2], op[1]))])
    /\ stage' = "rendered"
    /\ UNCHANGED <<document, built, app, pc, key, parse_result, elapsed>>

DocNext ==
    \/ Resolve
    \/ ResolveOverflow
    \/ ResolveAgain
    \/ BuildIndex
    \/ IsCriticalField
    \/ EndpointDetails

SpecDoc == DocInit /\ [][DocNext]_vars

(***************************************************************************)
(* SpecTick: ui/mod.rs 32-68, the loop of run() and its clock.  Time is    *)
(* counted in units of 25 ms; last_tick is followed as the time elapsed    *)
(* since it.  What the steps do to the App is left to Spec: here a reload, *)
(* the handling of a key and a render are the time they take, and of the   *)
(* App only should_reload and should_quit are kept, in pc: the loop is at  *)
(* "top" with no reload requested and at "reload" with one.                *)
(***************************************************************************)
\* ui/mod.rs 33: tick_rate = 250 ms
TickRate == 10

\* the longest a reload, a key handling or a render takes
MaxStep == 12

\* ui/mod.rs 32: last_tick = Instant::now(), then the loop is entered
TickInit ==
    /\ elapsed = 0
    /\ pc = "top"
    /\ app = <<>>
    /\ key = NoKey
    /\ parse_result = None
    /\ called = NoCall
    /\ document = DocEmpty
    /\ stage = ""
    /\ built = NotBuilt

\* ui/mod.rs 37: should_reload is false
TickNoReload ==
    /\ pc = "top"
    /\ pc' = "poll"
    /\ UNCHANGED <<elapsed, app, key, parse_result, called, document, stage, built>>

\* ui/mod.rs 37-47: the requested reload is awaited
TickReload ==
    /\ pc = "reload"
    /\ \E awaited \in 0..MaxStep : elapsed' = elapsed + awaited
    /\ pc' = "poll"
    /\ UNCHANGED <<app, key, parse_result, called, document, stage, built>>

\* ui/mod.rs 50-51: event::poll(tick_rate - last_tick.elapsed()) returns
\* true with a key press before the timeout, or false at the timeout
TickPoll ==
    /\ pc = "poll"
    /\ elapsed <= TickRate
    /\ \/ /\ key' \in {Char("r"), Char("q"), Char("a")}
          /\ \E waited \in 0..(TickRate - elapsed) : elapsed' = elapsed + waited
       \/ /\ key' = NoKey
          /\ elapsed' = TickRate
    /\ pc' = "tick"
    /\ UNCHANGED <<app, parse_result, called, document, stage, built>>

\* ui/mod.rs 50: Duration - Duration panics when the result would be
\* negative
TickPollPanics ==
    /\ pc = "poll"
    /\ elapsed > TickRate
    /\ pc' = "panicked"
    /\ UNCHANGED <<elapsed, app, key, parse_result, called, document, stage, built>>

\* ui/mod.rs 51-67: the key, if one was read, is handled; last_tick is reset
\* when tick_rate has elapsed; the UI is drawn; the loop is left on
\* should_quit (set by q), and r requests a reload
TickHandleAndDraw ==
    /\ pc = "tick"
    /\ \E handled \in (IF key = NoKey THEN {0} ELSE 0..MaxStep), drawn \in 0..MaxStep :
          elapsed' = (IF elapsed + handled >= TickRate THEN 0 ELSE elapsed + handled) + drawn
    /\ pc' = IF key = Char("q") THEN "done"
             ELSE IF key = Char("r") THEN "reload"
             ELSE "top"
    /\ key' = NoKey
    /\ UNCHANGED <<app, parse_result, called, document, stage, built>>

TickNext ==
    \/ TickNoReload
    \/ TickReload
    \/ TickPoll
    \/ TickPollPanics
    \/ TickHandleAndDraw

SpecTick == TickInit /\ [][TickNext]_vars


(***************************************************************************)
(* Properties                                                              *)
(***************************************************************************)
\* What a load determines and the navigation state kept beside it: the
\* document, the index, the query, the filtered lists, the cursors, the
\* selected names and the warnings
LoadedState(a) ==
    << a.openapi_spec, a.field_index, a.search_query,
       a.filtered_fields, a.filtered_schemas, a.filtered_endpoints,
       a.field_list_state, a.schema_list_state, a.endpoint_list_state,
       a.selected_field, a.selected_schema, a.selected_endpoint,
       a.validation_warnings >>

\* C1: a reload whose parse_openapi fails returns an error, leaves a non-empty
\* message in reload_error, and leaves the document, the index, the query, the
\* filtered lists, the cursors, the selected names and the warnings as they were.
C1_FailedReloadKeepsState ==
    [][ (called'.method = "reload" /\ parse_result' # None /\ ~parse_result'[1].ok)
        => /\ ~called'.result.ok
           /\ called'.result.err # ""
           /\ app'.reload_error = Some(called'.result.err)
           /\ LoadedState(app') = LoadedState(app) ]_vars

\* a failed reload returned, with a field selected and the cursor off the top
C1_Witness ==
    /\ called.method = "reload"
    /\ parse_result # None
    /\ ~parse_result[1].ok
    /\ ~called.result.ok
    /\ app.selected_field # None
    /\ app.field_list_state > 0
    /\ app.validation_warnings # <<>>

\* list holds each of the names matching the query once; sorted when there is
\* no query
Filtered(list, names, query) ==
    /\ SeqRange(list) = {n \in names : query = <<>> \/ fuzzy_match(n, query)}
    /\ Len(list) = Cardinality(SeqRange(list))
    /\ query = <<>> => \A i, j \in DOMAIN list : i < j => StrLess(list[i], list[j])

\* C2: in every state of the loop the index is one built from the document
\* held, and the three filtered lists are the filter of that index and that
\* document under the current query.
C2_SameLoad ==
    /\ app.field_index \in Indexes[app.openapi_spec]
    /\ Filtered(app.filtered_fields, DOMAIN app.field_index.fields, app.search_query)
    /\ Filtered(app.filtered_schemas, DOMAIN app.field_index.schemas, app.search_query)
    /\ Filtered(app.filtered_endpoints, DOMAIN app.openapi_spec.paths, app.search_query)

\* a key is about to be handled after a reload replaced the users document
\* by the pets document (the selection still names a field of the former)
\* and a later reload failed
C2_Witness ==
    /\ pc = "handle"
    /\ app.openapi_spec = DocPets
    /\ app.selected_field = Some(Name)
    /\ app.reload_error # None
    /\ app.filtered_fields = <<Id, Tag>>

\* C3: while a reload is suspended the only step is its completion: no key is
\* read or handled, no reload is requested, and the index is complete before
\* and after; a reload starts only at the top of the loop, with no key
\* pending and no other reload outstanding.
C3_ReloadNotInterleaved ==
    [][ /\ pc = "await"
           => /\ pc' = "poll"
              /\ key = NoKey /\ key' = NoKey
              /\ parse_result # None /\ parse_result' = None
              /\ app'.should_reload = app.should_reload
              /\ ~app'.is_loading
              /\ app.field_index \in Indexes[app.openapi_spec]
              /\ app'.field_index \in Indexes[app'.openapi_spec]
        /\ pc' = "await"
           => /\ pc = "top"
              /\ key = NoKey
              /\ parse_result = None ]_vars

\* a reload is suspended and will bring another document
C3_Witness ==
    /\ pc = "await"
    /\ parse_result[1].ok
    /\ parse_result[1].spec # app.openapi_spec
    /\ app.is_loading

\* C4: without a file path reload fails at once: it returns the error it stores
\* in reload_error, a non-empty message, parse_openapi is not called, and the
\* document, the index, the query, the filtered lists, the cursors, the selected
\* names and the warnings stay as they were.
C4_NoPathNoChange ==
    [][ (called'.method = "reload" /\ app.file_path = None)
        => /\ ~called'.result.ok
           /\ called'.result.err # ""
           /\ app'.reload_error = Some(called'.result.err)
           /\ parse_result' = None
           /\ LoadedState(app') = LoadedState(app) ]_vars

\* reload returned for an App without a file path, a field selected
C4_Witness ==
    /\ called.method = "reload"
    /\ app.file_path = None
    /\ app.reload_error = Some(NoFilePath)
    /\ app.selected_field # None
    /\ app.field_list_state > 0

\* cursor state is clamped to list
Clamped(state, list) ==
    IF list = <<>> THEN state = 0 ELSE state <= Len(list) - 1

CursorsClamped(a) ==
    /\ Clamped(a.field_list_state, a.filtered_fields)
    /\ Clamped(a.schema_list_state, a.filtered_schemas)
    /\ Clamped(a.endpoint_list_state, a.filtered_endpoints)

\* C5: right after update_filters ran (in new, after a query edit, in a
\* successful reload) each cursor is at most len-1 of its filtered list, and 0
\* when the list is empty.
C5_ClampedAfterUpdateFilters ==
    (\/ called.method \in {"new", "update_filters"}
     \/ called.method = "reload" /\ called.result.ok)
    => CursorsClamped(app)

\* a query edit left no field of a document that has fields
C5_Witness ==
    /\ called.method = "update_filters"
    /\ app.search_query # <<>>
    /\ app.filtered_fields = <<>>
    /\ DOMAIN app.field_index.fields # {}
    /\ app.filtered_endpoints # <<>>

\* C6: in every reachable state each cursor is within its filtered list, or 0
\* when the list is empty.
C6_CursorsInBounds == CursorsClamped(app)

\* the endpoint keys of a document: "METHOD path" for every operation
EndpointNames(spec) == {EndpointKey(pm[2], pm[1]) : pm \in AllOperations(spec)}

\* C7: when update_filters ran with an empty query the filtered lists are the
\* field names, the schema names and the endpoint names, each sorted ascending
\* and complete.
C7_EmptyQueryFullLists ==
    (called.method = "update_filters" /\ app.search_query = <<>>)
    => /\ app.filtered_fields = SortedSeq(DOMAIN app.field_index.fields)
       /\ app.filtered_schemas = SortedSeq(DOMAIN app.field_index.schemas)
       /\ app.filtered_endpoints = SortedSeq(EndpointNames(app.openapi_spec))

CursorNames == {"field_list_state", "schema_list_state", "endpoint_list_state"}

\* the cursor the active panel moves, "" when it moves none
ActiveCursor(a) ==
    IF a.current_panel = "Left" /\ a.current_view = "Fields" THEN "field_list_state"
    ELSE IF a.current_panel = "Left" /\ a.current_view = "Schemas" THEN "schema_list_state"
    ELSE IF a.current_panel = "Left" /\ a.current_view = "Endpoints" THEN "endpoint_list_state"
    ELSE IF a.current_panel = "Right" /\ a.selected_field # None THEN "endpoint_list_state"
    ELSE ""

\* the length of the list the active panel shows
ActiveLen(a) ==
    IF a.current_panel = "Left" /\ a.current_view = "Fields" THEN Len(a.filtered_fields)
    ELSE IF a.current_panel = "Left" /\ a.current_view = "Schemas" THEN Len(a.filtered_schemas)
    ELSE IF a.current_panel = "Left" /\ a.current_view = "Endpoints" THEN Len(a.filtered_endpoints)
    ELSE IF a.current_panel = "Right" /\ a.selected_field # None
    THEN IF a.selected_field[1] \in DOMAIN a.field_index.fields
         THEN Cardinality(a.field_index.fields[a.selected_field[1]].endpoints)
         ELSE 0
    ELSE 0

\* b is a with its cursors possibly changed
SameButCursors(a, b) ==
    \A f \in DOMAIN a : f \notin CursorNames => b[f] = a[f]

C9_SelectCurrentItem ==
    [][ (called'.method = "select_current_item" /\ app.current_panel = "Left")
        => /\ app.current_view = "Fields" =>
                 IF app.field_list_state < Len(app.filtered_fields)
                 THEN app' = [app EXCEPT
                         !.selected_field = Some(app.filtered_fields[app.field_list_state + 1]),
                         !.endpoint_list_state = 0]
                 ELSE app' = app
           /\ app.current_view = "Schemas" =>
                 IF app.schema_list_state < Len(app.filtered_schemas)
                 THEN app' = [app EXCEPT
                         !.selected_schema = Some(app.filtered_schemas[app.schema_list_state + 1])]
                 ELSE app' = app
           /\ app.current_view = "Endpoints" =>
                 IF app.endpoint_list_state < Len(app.filtered_endpoints)
                 THEN app' = [app EXCEPT
                         !.selected_endpoint =
                             Some(app.filtered_endpoints[app.endpoint_list_state + 1])]
                 ELSE app' = app
           /\ app.current_view \in {"Graph", "Stats"} => app' = app
           /\ (ActiveLen(app) = 0 =>
                 /\ app'.selected_field = app.selected_field
                 /\ app'.selected_schema = app.selected_schema
                 /\ app'.selected_endpoint = app.selected_endpoint) ]_vars

\* the second field was selected in the left panel
C9_Witness ==
    /\ called.method = "select_current_item"
    /\ app.current_panel = "Left"
    /\ app.current_view = "Fields"
    /\ app.field_list_state = 1
    /\ app.selected_field = Some(app.filtered_fields[2])
    /\ app.endpoint_list_state = 0

\* the sub-schemas of a node: properties, items, allOf, oneOf, anyOf, not,
\* additionalProperties
ChildSchemas(schema) ==
    (IF schema.properties = None THEN {}
     ELSE {schema.properties[1][k] : k \in DOMAIN schema.properties[1]})
    \cup (IF schema.items = None THEN {} ELSE {schema.items[1]})
    \cup SeqRange(VecOf(schema.all_of))
    \cup SeqRange(VecOf(schema.one_of))
    \cup SeqRange(VecOf(schema.any_of))
    \cup (IF schema.not = None THEN {} ELSE {schema.not[1]})
    \cup (IF schema.additional_properties = None THEN {}
          ELSE {schema.additional_properties[1]})

\* every node of the tree under a schema
RECURSIVE SchemaNodes(_)
SchemaNodes(schema) ==
    {schema} \cup UNION {SchemaNodes(c) : c \in ChildSchemas(schema)}

\* the schemas a document holds: the named ones and those of the parameters,
\* request bodies and responses of its operations
RootSchemas(spec) ==
    {NamedSchemas(spec)[n] : n \in DOMAIN NamedSchemas(spec)}
    \cup UNION {SeqRange(OperationSchemas(spec.paths[pm[1]].operations[pm[2]])) :
                pm \in AllOperations(spec)}

\* C10: once resolution completed no node of the document carries a non-empty
\* reference.
C10_NoReferenceLeft ==
    stage = "resolved"
    => \A root \in RootSchemas(document) : \A node \in SchemaNodes(root) :
          node.reference = None \/ node.reference[1] = <<>>

\* no node of any tree of the schema map carries a reference
ReferenceFree(schemas) ==
    \A n \in DOMAIN schemas : \A node \in SchemaNodes(schemas[n]) : node.reference = None

\* C11: resolving the resolved schema map again changes nothing, and resolving
\* a schema map without any reference changes nothing.
C11_ResolutionIdempotent ==
    [][ /\ (stage = "resolved" /\ stage' = "resolved again")
           => NamedSchemas(document') = NamedSchemas(document)
        /\ (stage = "parsed" /\ stage' = "resolved"
            /\ ReferenceFree(NamedSchemas(document)))
           => NamedSchemas(document') = NamedSchemas(document) ]_vars

\* resolved twice, and the first resolution gave A the properties of B
C11_Witness ==
    /\ stage = "resolved again"
    /\ SchemaA \in DOMAIN NamedSchemas(document)
    /\ NamedSchemas(document)[SchemaA].properties = TargetB.properties
    /\ NamedSchemas(document)[SchemaA].description = TargetB.description

\* C12: when a named schema refers to a named schema b, the field names of
\* the resolved referrer include every field name get_field_names reports
\* for b.
C12_ReferrerHasTargetFields ==
    [][ (stage = "parsed" /\ stage' = "resolved")
        => \A a, b \in DOMAIN NamedSchemas(document) :
              NamedSchemas(document)[a].reference = Some(RefPrefix \o b)
              => SeqRange(get_field_names(NamedSchemas(document')[b]))
                    \subseteq SeqRange(get_field_names(NamedSchemas(document')[a])) ]_vars

\* the properties of a schema, the empty map when it has none
PropertiesOf(schema) == IF schema.properties = None THEN <<>> ELSE schema.properties[1]

\* C13: when a property of a named schema refers to a named schema t, the
\* field names extracted from the resolved outer schema, by get_field_names
\* and by extract_fields_from_schema, contain the field names of t.
C13_FieldsThroughProperty ==
    [][ (stage = "parsed" /\ stage' = "resolved")
        => \A a, t \in DOMAIN NamedSchemas(document) :
              (\E k \in DOMAIN PropertiesOf(NamedSchemas(document)[a]) :
                  PropertiesOf(NamedSchemas(document)[a])[k].reference
                      = Some(RefPrefix \o t))
              => /\ SeqRange(get_field_names(NamedSchemas(document')[t]))
                       \subseteq SeqRange(get_field_names(NamedSchemas(document')[a]))
                 /\ SeqRange(get_field_names(NamedSchemas(document')[t]))
                       \subseteq SeqRange(extract_fields_from_schema(
                                              NamedSchemas(document')[a])) ]_vars

\* C14: resolve_references returns on every document; the process never
\* aborts in it.
C14_ResolutionReturns == stage # "aborted"

\* C15: the index the application holds, after startup and after every
\* reload, is built from resolved schemas: an operation whose schema is a
\* reference to the named schema S has the fields of S in its endpoint_fields
\* entry and its key among the endpoints of each of these fields, and no
\* schema of the index holds a reference.
C15_IndexFromResolvedSchemas ==
    /\ \A op \in AllOperations(app.openapi_spec) :
          LET operation == app.openapi_spec.paths[op[1]].operations[op[2]]
              schemas == OperationSchemas(operation)
              endpoint_key == EndpointKey(op[2], op[1])
          IN \A i \in DOMAIN schemas : \A s \in DOMAIN NamedSchemas(app.openapi_spec) :
                schemas[i].reference = Some(RefPrefix \o s)
                => \A f \in SeqRange(get_field_names(NamedSchemas(app.openapi_spec)[s])) :
                      /\ endpoint_key \in DOMAIN app.field_index.endpoint_fields
                      /\ f \in SeqRange(app.field_index.endpoint_fields[endpoint_key])
                      /\ f \in DOMAIN app.field_index.fields
                      /\ endpoint_key \in app.field_index.fields[f].endpoints
    /\ ReferenceFree(app.field_index.schemas)

\* The field list the indexer computes for one operation <<path, method>>
FieldsOfOperation(openapi_spec, op) ==
    LET schemas == OperationSchemas(openapi_spec.paths[op[1]].operations[op[2]])
    IN FlatMap([i \in 1..Len(schemas) |-> i],
               [i \in 1..Len(schemas) |-> extract_fields_from_schema(schemas[i])])

\* C19: every operation of the document yields one endpoint key, two distinct
\* operations never yield the same key, endpoint_fields has exactly one entry
\* per operation and each entry is the field list of its own operation.
C19_OneKeyPerOperation ==
    stage = "indexed"
    => /\ \A o1, o2 \in AllOperations(document) :
             o1 # o2 => EndpointKey(o1[2], o1[1]) # EndpointKey(o2[2], o2[1])
       /\ Cardinality(DOMAIN built.index.endpoint_fields)
             = Cardinality(AllOperations(document))
       /\ \A op \in AllOperations(document) :
             /\ EndpointKey(op[2], op[1]) \in DOMAIN built.index.endpoint_fields
             /\ built.index.endpoint_fields[EndpointKey(op[2], op[1])]
                   = FieldsOfOperation(document, op)

\* C16: in the index returned by build_field_index the cross-references agree
\* in both directions: an endpoint key e is among the endpoints of field f
\* iff f occurs in endpoint_fields[e]; a schema name s is among the schemas of
\* f iff f is a field name of schemas[s]; every operation has an
\* endpoint_fields entry, the empty list when the operation has no schema.
C16_CrossReferencesAgree ==
    stage = "indexed"
    => LET index == built.index
       IN /\ \A f \in DOMAIN index.fields :
                /\ index.fields[f].endpoints \subseteq DOMAIN index.endpoint_fields
                /\ \A e \in DOMAIN index.endpoint_fields :
                      e \in index.fields[f].endpoints
                      <=> f \in SeqRange(index.endpoint_fields[e])
                /\ \A s \in DOMAIN index.schemas :
                      s \in SeqRange(index.fields[f].schemas)
                      <=> f \in SeqRange(get_field_names(index.schemas[s]))
          /\ \A op \in AllOperations(document) :
                /\ EndpointKey(op[2], op[1]) \in DOMAIN index.endpoint_fields
                /\ OperationSchemas(document.paths[op[1]].operations[op[2]]) = <<>>
                   => index.endpoint_fields[EndpointKey(op[2], op[1])] = <<>>

\* The field names extracted from the named schemas of a document
NamedSchemaFields(openapi_spec) ==
    UNION {SeqRange(get_field_names(NamedSchemas(openapi_spec)[s])) :
           s \in DOMAIN NamedSchemas(openapi_spec)}

\* C17: the key set of the field map is exactly the union of the field names
\* extracted from the named schemas; a name that occurs only in the schemas
\* of an operation has no FieldData entry and still appears in
\* endpoint_fields.
C17_EndpointOnlyFields ==
    stage = "indexed"
    => /\ DOMAIN built.index.fields = NamedSchemaFields(document)
       /\ \A op \in AllOperations(document) :
             \A f \in SeqRange(FieldsOfOperation(document, op)) \ NamedSchemaFields(document) :
                /\ f \notin DOMAIN built.index.fields
                /\ \E e \in DOMAIN built.index.endpoint_fields :
                      f \in SeqRange(built.index.endpoint_fields[e])

\* The positions, in the order the schema pass visited the named schemas, of
\* the schemas that define field f
DefiningPositions(f) ==
    {i \in DOMAIN built.schema_names :
        f \in SeqRange(get_field_names(NamedSchemas(document)[built.schema_names[i]]))}

FirstDefining(f) ==
    NamedSchemas(document)[built.schema_names[
        CHOOSE i \in DefiningPositions(f) : \A j \in DefiningPositions(f) : i <= j]]

OccursIgnoringCase(s, word) ==
    \E i \in 0..(Len(s) - Len(word)) :
        \A k \in 1..Len(word) : s[i + k] \in {word[k], to_uppercase_char(word[k])}

\* C20: is_critical_field(f) is true iff f is in the field map and some key
\* of its endpoint set contains "post" or "put", case ignored, anywhere in the
\* key; it is false for every name absent from the field map.
C20_CriticalIffPostOrPut ==
    (stage = "queried" /\ called.method = "is_critical_field")
    => LET f == called.result.field_name
       IN /\ called.result.critical
             <=> /\ f \in DOMAIN built.index.fields
                 /\ \E e \in built.index.fields[f].endpoints :
                       \/ OccursIgnoringCase(e, <<"p", "o", "s", "t">>)
                       \/ OccursIgnoringCase(e, <<"p", "u", "t">>)
          /\ f \notin DOMAIN built.index.fields => ~called.result.critical

\* a field is critical through the upper-case method POST of its only key
C20_Witness ==
    /\ stage = "queried"
    /\ called.result.critical
    /\ built.index.fields[called.result.field_name].endpoints
          = {<<"P", "O", "S", "T", " ", "/", "u">>}

\* C21: once the search key '/' has been pressed, a character key typed
\* afterwards that is no reserved shortcut is appended to the query: from its
\* handling on the query is, at some point, not empty.
C21_TypedCharsReachQuery ==
    []((pc = "handle" /\ key = Char("/"))
       => []((pc = "handle" /\ key = Char("a")) => <>(app.search_query # <<>>)))

\* No schema under the property map holds a reference
PropertiesReferenceFree(properties) ==
    \A k \in DOMAIN properties : \A node \in SchemaNodes(properties[k]) : node.reference = None

\* value is the node's own setting when it has one, else the target's
KeptOrCopied(own, of_target, value) ==
    IF own # None THEN value = own ELSE value = of_target

\* The property map after resolution: the node's own map when it has one,
\* else the target's; same names, and the same sub-schemas when these hold
\* no reference that resolution rewrites
PropertiesKeptOrCopied(own, of_target, value) ==
    LET source == IF own # None THEN own ELSE of_target
    IN /\ value = None <=> source = None
       /\ source # None
          => /\ DOMAIN value[1] = DOMAIN source[1]
             /\ PropertiesReferenceFree(source[1]) => value = source

\* C22: resolving a named schema that carries a reference to an existing
\* named schema copies each of type, description, properties and required
\* list from the target only where the node left it unset, keeps what the
\* node set itself, and clears the reference.
C22_LocalOverrideWins ==
    [][ (stage = "parsed" /\ stage' = "resolved")
        => \A a, b \in DOMAIN NamedSchemas(document) :
              NamedSchemas(document)[a].reference = Some(RefPrefix \o b)
              => LET node == NamedSchemas(document)[a]
                     target == NamedSchemas(document)[b]
                     resolved == NamedSchemas(document')[a]
                 IN /\ KeptOrCopied(node.schema_type, target.schema_type, resolved.schema_type)
                    /\ KeptOrCopied(node.description, target.description, resolved.description)
                    /\ KeptOrCopied(node.required, target.required, resolved.required)
                    /\ PropertiesKeptOrCopied(node.properties, target.properties,
                                              resolved.properties)
                    /\ resolved.reference = None ]_vars

\* A referred to B and had a description, properties and a required list of
\* its own and no type: it keeps the three and has the type of B
C22_Witness ==
    /\ stage = "resolved"
    /\ SchemaA \in DOMAIN NamedSchemas(document)
    /\ NamedSchemas(document)[SchemaA].description = Some("local")
    /\ NamedSchemas(document)[SchemaA].properties = Some(Id :> Prim("integer"))
    /\ NamedSchemas(document)[SchemaA].required = Some(<<Id>>)
    /\ NamedSchemas(document)[SchemaA].schema_type = TargetB.schema_type
    /\ NamedSchemas(document)[SchemaA].reference = None

\* The reference of a node names no schema of the document: the name is
\* absent from the map, or the string lacks the prefix
Dangling(node, spec) ==
    /\ node.reference # None
    /\ \/ ~starts_with(node.reference[1], RefPrefix)
       \/ SubSeq(node.reference[1], Len(RefPrefix) + 1, Len(node.reference[1]))
             \notin DOMAIN NamedSchemas(spec)

\* Each reference of the tree is one that names no schema
OnlyDanglingReferences(schema, spec) ==
    \A node \in SchemaNodes(schema) : node.reference = None \/ Dangling(node, spec)

\* The tree with the reference string of every node cleared and nothing
\* else changed
RECURSIVE ClearReferences(_)
ClearReferences(schema) ==
    [schema EXCEPT
       !.reference = None,
       !.properties = IF @ = None THEN None
                      ELSE Some([k \in DOMAIN @[1] |-> ClearReferences(@[1][k])]),
       !.items = IF @ = None THEN None ELSE Some(ClearReferences(@[1])),
       !.all_of = IF @ = None THEN None
                  ELSE Some([i \in DOMAIN @[1] |-> ClearReferences(@[1][i])]),
       !.one_of = IF @ = None THEN None
                  ELSE Some([i \in DOMAIN @[1] |-> ClearReferences(@[1][i])]),
       !.any_of = IF @ = None THEN None
                  ELSE Some([i \in DOMAIN @[1] |-> ClearReferences(@[1][i])]),
       !.not = IF @ = None THEN None ELSE Some(ClearReferences(@[1])),
       !.additional_properties = IF @ = None THEN None ELSE Some(ClearReferences(@[1]))]

\* C23: a node whose reference names a schema absent from the map, or lacks
\* the prefix "#/components/schemas/", has its reference cleared by
\* resolution and is otherwise unchanged: a schema of the document, named or
\* of an operation, whose references are all of this kind comes out as
\* itself with the references cleared.
C23_DanglingReferenceCleared ==
    [][ (stage = "parsed" /\ stage' = "resolved")
        => /\ \A a \in DOMAIN NamedSchemas(document) :
                 OnlyDanglingReferences(NamedSchemas(document)[a], document)
                 => NamedSchemas(document')[a] = ClearReferences(NamedSchemas(document)[a])
           /\ \A op \in AllOperations(document) :
                 LET before == OperationSchemas(document.paths[op[1]].operations[op[2]])
                     after == OperationSchemas(document'.paths[op[1]].operations[op[2]])
                 IN \A i \in DOMAIN before :
                       OnlyDanglingReferences(before[i], document)
                       => after[i] = ClearReferences(before[i]) ]_vars

\* C24: every reload request is followed, in the end, by a state in which the
\* reload is over: should_reload and is_loading are false and the loading
\* message is empty; and once the reload step of an iteration has run,
\* whichever branch of reload() it took, is_loading is false.
C24_ReloadRunsToCompletion ==
    /\ app.should_reload
          ~> (~app.should_reload /\ ~app.is_loading /\ app.loading_message = "")
    /\ [](pc \in {"poll", "handle"} => ~app.is_loading /\ app.loading_message = "")

\* the reload requested by 'r' failed on the file and is over
C24_Witness ==
    /\ pc = "poll"
    /\ app.reload_error = Some(FailedToReload("OpenAPI file not found"))
    /\ ~app.should_reload
    /\ ~app.is_loading
    /\ app.loading_message = ""

\* C26: a selected field name is a key of the field map of the current index
\* and a selected schema name is a key of its schema map, in every state,
\* also after a reload that replaced the index.
C26_SelectionsInIndex ==
    /\ app.selected_field # None
       => app.selected_field[1] \in DOMAIN app.field_index.fields
    /\ app.selected_schema # None
       => app.selected_schema[1] \in DOMAIN app.field_index.schemas

\* C27: whenever a field is selected the endpoint cursor is a valid index
\* into the list of that field's endpoints: less than its length, 0 when the
\* list is empty.
C27_EndpointCursorValid ==
    app.selected_field # None
    => LET endpoints == get_endpoints_for_field(app.field_index, app.selected_field[1])
       IN IF endpoints = <<>>
          THEN app.endpoint_list_state = 0
          ELSE app.endpoint_list_state < Len(endpoints)

\* C28: whenever a selection in the Endpoints view sets selected_endpoint, the
\* value set is an endpoint key "METHOD path", a key of endpoint_fields of
\* the index.
C28_SelectedEndpointIsKey ==
    [][ app'.selected_endpoint # app.selected_endpoint
        => /\ app'.selected_endpoint # None
           /\ app'.selected_endpoint[1] \in DOMAIN app'.field_index.endpoint_fields ]_vars

\* C29: the application that started on a loaded document has a source
\* location, and a reload never fails for lack of a file path.
C29_SourceLocationKnown ==
    /\ app.file_path # None
    /\ app.reload_error # Some(NoFilePath)

\* C30: splitting the endpoint key of an operation <<path, method>> at its
\* first space and looking up the path and then the method in the document
\* finds that same operation, however the method key is spelled and also
\* when the path holds spaces.
C30_KeyFindsOperation ==
    stage = "rendered" => called.result.found = Some(called.result.operation)

\* C25: whenever the poll timeout tick_rate - last_tick.elapsed() is
\* computed, the time elapsed since last_tick does not exceed tick_rate: the
\* subtraction never underflows.
C25_PollTimeoutNeverUnderflows ==
    /\ pc = "poll" => elapsed <= TickRate
    /\ pc # "panicked"

====
